---- MODULE Spec2Model ----
(***************************************************************************)
(* Model of nomad-pack's `render` command (RenderCommand.Run, Render.Output,*)
(* Render.toFile, maybeConfirmOverwrite, formatRenderName) and of the      *)
(* filesystem helpers (Exists, IsDir, CreatePath, WriteFile, CopyFile,     *)
(* CopyDir).                                                               *)
(*                                                                         *)
(* Strings are sequences of one-character strings, so that formatting,     *)
(* splitting and joining of names are computed as the code computes them.  *)
(***************************************************************************)
EXTENDS Integers, Sequences, FiniteSets, TLC

\* ------------------------------------------------------------------------
\* Bounds of the model
\* ------------------------------------------------------------------------

\* Largest number of lines the user may type at one overwrite prompt
\* (the loop of maybeConfirmOverwrite itself is unbounded).
MaxReads == 2

\* Largest number of dependent renders / parent renders in one batch.
MaxGroup == 2

\* Largest number of renders in one batch.
MaxBatch == 2

\* Largest number of filesystem operations the environment lets fail in one
\* run for a reason outside the modelled tree (permissions, device errors).
MaxFaults == 1

\* ------------------------------------------------------------------------
\* Strings
\* ------------------------------------------------------------------------

\* Byte value of the characters used by the names of the model (ASCII).
Ord(c) ==
    CASE c = "." -> 46
      [] c = "/" -> 47
      [] c = "a" -> 97
      [] c = "e" -> 101
      [] c = "j" -> 106
      [] c = "k" -> 107
      [] c = "l" -> 108
      [] c = "m" -> 109
      [] c = "o" -> 111
      [] c = "p" -> 112
      [] c = "s" -> 115
      [] c = "t" -> 116
      [] c = "u" -> 117
      [] OTHER -> 0

\* Go's string comparison s < t (bytewise lexicographic).
RECURSIVE StrLess(_, _)
StrLess(s, t) ==
    IF t = <<>> THEN FALSE
    ELSE IF s = <<>> THEN TRUE
    ELSE IF Ord(Head(s)) < Ord(Head(t)) THEN TRUE
    ELSE IF Ord(Head(s)) > Ord(Head(t)) THEN FALSE
    ELSE StrLess(Tail(s), Tail(t))

\* TRUE iff sub occurs in s starting at index i.
HasAt(s, sub, i) ==
    /\ i >= 1
    /\ i + Len(sub) - 1 <= Len(s)
    /\ \A k \in 1..Len(sub) : s[i + k - 1] = sub[k]

\* strings.Index(s, sub) + 1, or 0 when sub does not occur in s.
Index(s, sub) ==
    IF \E i \in 1..Len(s) : HasAt(s, sub, i)
    THEN CHOOSE i \in 1..Len(s) :
            /\ HasAt(s, sub, i)
            /\ \A j \in 1..(i - 1) : ~HasAt(s, sub, j)
    ELSE 0

\* strings.Replace(s, old, new, 1) for a non-empty old.
Replace1(s, old, new) ==
    LET i == Index(s, old) IN
    IF i = 0 THEN s
    ELSE SubSeq(s, 1, i - 1) \o new \o SubSeq(s, i + Len(old), Len(s))

\* strings.TrimRight(s, cutset): drops every trailing character of cutset.
RECURSIVE TrimRight(_, _)
TrimRight(s, cutset) ==
    IF s # <<>> /\ s[Len(s)] \in cutset
    THEN TrimRight(SubSeq(s, 1, Len(s) - 1), cutset)
    ELSE s

StrTemplates == <<"/", "t", "e", "m", "p", "l", "a", "t", "e", "s", "/">>

\* The characters of the cutset ".tpl".
CutsetTpl == {".", "t", "p", "l"}

\* A formatter that drops one trailing ".tpl" (strings.TrimSuffix) instead
\* of trimming the cutset.
formatRenderName_TrimSuffix(name) ==
    LET s == Replace1(name, StrTemplates, <<"/">>) IN
    IF Len(s) >= 4 /\ HasAt(s, <<".", "t", "p", "l">>, Len(s) - 3)
    THEN SubSeq(s, 1, Len(s) - 4)
    ELSE s

\* formatRenderName trims the low-value elements from the rendered template
\* name.
formatRenderName(name) ==
    TrimRight(Replace1(name, StrTemplates, <<"/">>), CutsetTpl)

\* Index of the last "/" of s, 0 when there is none (strings.LastIndex + 1).
LastSlash(s) ==
    IF \E i \in 1..Len(s) : s[i] = "/"
    THEN CHOOSE i \in 1..Len(s) :
            /\ s[i] = "/"
            /\ \A j \in (i + 1)..Len(s) : s[j] # "/"
    ELSE 0

\* path.Split(p): the directory part (with its final slash) and the file part.
PathSplit(p) ==
    LET i == LastSlash(p) IN
    [dir |-> SubSeq(p, 1, i), file |-> SubSeq(p, i + 1, Len(p))]

\* path.Clean on the paths of the model (no ".", ".." or "//" elements):
\* removes trailing slashes.
RECURSIVE PathClean(_)
PathClean(p) ==
    IF Len(p) > 1 /\ p[Len(p)] = "/"
    THEN PathClean(SubSeq(p, 1, Len(p) - 1))
    ELSE p

\* path.Join(a, b): empty elements are ignored, the result is cleaned.
PathJoin(a, b) ==
    IF a = <<>> /\ b = <<>> THEN <<>>
    ELSE IF a = <<>> THEN PathClean(b)
    ELSE IF b = <<>> THEN PathClean(a)
    ELSE PathClean(a \o <<"/">> \o b)

\* ------------------------------------------------------------------------
\* Calls of formatRenderName on arbitrary raw names
\* ------------------------------------------------------------------------

\* Largest number of segments a raw name is put together from.
MaxSegments == 4

\* The pieces raw names are put together from: "/templates/", "templates/",
\* ".tpl", ".", "/", "t", "p", "l", "a", "mypack", "job.nomad".
NameSegments ==
    { StrTemplates,
      <<"t", "e", "m", "p", "l", "a", "t", "e", "s", "/">>,
      <<".", "t", "p", "l">>,
      <<".">>, <<"/">>, <<"t">>, <<"p">>, <<"l">>, <<"a">>,
      <<"m", "y", "p", "a", "c", "k">>,
      <<"j", "o", "b", ".", "n", "o", "m", "a", "d">> }

\* The raw names made of at most n segments.
RECURSIVE NamesOf(_)
NamesOf(n) ==
    IF n = 0 THEN {<<>>}
    ELSE LET shorter == NamesOf(n - 1) IN
         shorter \cup {s \o seg : s \in shorter, seg \in NameSegments}

RawNames == NamesOf(MaxSegments)

VARIABLES
    fmtPc,         \* "idle", "start" before the call, "done" after it
    fmtName,       \* the argument of formatRenderName
    fmtOut         \* the value formatRenderName returned

formatVars == <<fmtPc, fmtName, fmtOut>>

\* One call of formatRenderName.
FormatCall ==
    /\ fmtPc = "start"
    /\ fmtPc' = "done"
    /\ fmtOut' = formatRenderName(fmtName)
    /\ UNCHANGED fmtName

\* formatRenderName is not being called on its own.
FormatIdle ==
    /\ fmtPc = "idle"
    /\ fmtName = <<>>
    /\ fmtOut = <<>>

FormatInit ==
    /\ fmtPc = "start"
    /\ fmtName \in RawNames
    /\ fmtOut = <<>>

\* ------------------------------------------------------------------------
\* The inputs of a run
\* ------------------------------------------------------------------------

\* Raw template names the template engine may hand over as dependent
\* renders: "a/templates/j.tpl" and "a/templates/t.tpl".
DepUniverse ==
    { <<"a", "/", "t", "e", "m", "p", "l", "a", "t", "e", "s", "/", "j", ".", "t", "p", "l">>,
      <<"a", "/", "t", "e", "m", "p", "l", "a", "t", "e", "s", "/", "t", ".", "t", "p", "l">> }

\* Raw template names of the parent renders: "k.tpl" and "a/j.tpl".
ParUniverse ==
    { <<"k", ".", "t", "p", "l">>,
      <<"a", "/", "j", ".", "t", "p", "l">> }

\* The name given to the output-template render: "outputs.tpl".
StrOutputsTpl == <<"o", "u", "t", "p", "u", "t", "s", ".", "t", "p", "l">>

\* The rendered content of a template: one distinct text per raw name.
ContentOf(raw) == <<"rendered", raw>>

\* The content of a file that is on disk before the run.
OldContent == <<"old">>

\* The --to-dir value of a run that writes files: "o".
ToDir == <<"o">>

\* The orders in which Go may iterate a map whose key set is S.
Orderings(S) ==
    {s \in [1..Cardinality(S) -> S] : \A i, j \in DOMAIN s : i # j => s[i] # s[j]}

\* The iteration orders of the maps with at most MaxGroup keys out of U.
MapIterations(U) ==
    UNION {Orderings(S) : S \in {T \in SUBSET U : Cardinality(T) <= MaxGroup}}

\* What the user may type at the prompt.
Responses == {"y", "Y", "n", "N", "a", "A", "x"}

\* strings.ToLower on the responses.
ToLower(c) ==
    CASE c = "Y" -> "y"
      [] c = "N" -> "n"
      [] c = "A" -> "a"
      [] OTHER -> c

\* ------------------------------------------------------------------------
\* The filesystem
\* ------------------------------------------------------------------------

NoEntry == [kind |-> "none", content |-> <<>>]
DirEntry == [kind |-> "dir", content |-> <<>>]
FileEntry(c) == [kind |-> "file", content |-> c]

\* The proper ancestors of path p (the working directory is not modelled:
\* it exists and is a directory).
Ancestors(p) == {SubSeq(p, 1, i - 1) : i \in {k \in 2..Len(p) : p[k] = "/"}}

\* outDir of Render.toFile for a render name.
OutDirOf(toDir, name) == PathJoin(toDir, PathSplit(name).dir)

\* outFile of Render.toFile for a render name.
OutFileOf(toDir, name) == PathJoin(OutDirOf(toDir, name), PathSplit(name).file)

\* Every render name a batch can hold.
AllRenderNames ==
    {formatRenderName(n) : n \in DepUniverse \cup ParUniverse} \cup {StrOutputsTpl}

\* The paths the command can touch.
FsPaths ==
    UNION { Ancestors(OutFileOf(ToDir, n))
            \cup {OutFileOf(ToDir, n), OutDirOf(ToDir, n)} : n \in AllRenderNames }

\* The filesystems a run may start from: an entry exists only inside a
\* directory.
InitialFilesystems ==
    { f \in [FsPaths -> {NoEntry, DirEntry, FileEntry(OldContent)}] :
        \A p \in FsPaths :
            /\ f[p].kind # "none" => \A q \in Ancestors(p) : f[q].kind = "dir"
            /\ f[p].kind = "dir" => \E q \in FsPaths : p \in Ancestors(q) }

\* os.Stat(p): "dir", "file", or the error ENOENT / ENOTDIR.
Stat(f, p) ==
    IF \E q \in Ancestors(p) : f[q].kind = "file" THEN "ENOTDIR"
    ELSE IF f[p].kind = "none" THEN "ENOENT"
    ELSE f[p].kind

\* Exists returns true if the given path has an os.Stat-able object; st is
\* the outcome of os.Stat on the path. Only ErrNotExist yields false.
Exists(path, st, emptyPathIsValid) ==
    IF path = <<>> THEN emptyPathIsValid
    ELSE st # "ENOENT"

\* IsDir returns true if the given path is an existing directory.
IsDir(path, st, emptyPathIsValid) ==
    IF path = <<>> THEN emptyPathIsValid
    ELSE st = "dir"

\* os.MkdirAll(p, 0755).
MkdirAll(f, p, fault) ==
    IF Stat(f, p) = "dir" THEN [fs |-> f, err |-> "nil"]
    ELSE IF \E q \in Ancestors(p) \cup {p} : f[q].kind = "file"
    THEN [fs |-> f, err |-> "ENOTDIR"]
    ELSE IF fault = "mkdir" THEN [fs |-> f, err |-> "EACCES"]
    ELSE [fs |-> [q \in FsPaths |->
                    IF q \in Ancestors(p) \cup {p} THEN DirEntry ELSE f[q]],
          err |-> "nil"]

\* CreatePath creates a nested directory if it does not exist.
CreatePath(f, p, errIfExists, fault) ==
    IF Stat(f, p) = "dir" /\ errIfExists
    THEN [fs |-> f, err |-> "ErrDirExists"]
    ELSE MkdirAll(f, p, fault)

\* The faults of the environment: none, os.MkdirAll is refused, the open of
\* os.WriteFile fails (the file is untouched), the write of os.WriteFile
\* fails after the file was truncated.
EnvFaults == {"none", "mkdir", "open", "write"}

\* os.WriteFile(p, content, 0644).
OsWriteFile(f, p, content, fault) ==
    LET st == Stat(f, p) IN
    IF st = "ENOTDIR" THEN [fs |-> f, err |-> "ENOTDIR"]
    ELSE IF \E q \in Ancestors(p) : f[q].kind = "none"
    THEN [fs |-> f, err |-> "ENOENT"]
    ELSE IF st = "dir" THEN [fs |-> f, err |-> "EISDIR"]
    ELSE IF fault = "open" THEN [fs |-> f, err |-> "EACCES"]
    ELSE IF fault = "write"
    THEN [fs |-> [f EXCEPT ![p] = FileEntry(<<>>)], err |-> "EIO"]
    ELSE [fs |-> [f EXCEPT ![p] = FileEntry(content)], err |-> "nil"]

\* WriteFile checks whether the file exists before trying to overwrite it.
WriteFile(f, destination, content, overwrite, fault) ==
    LET st == Stat(f, destination) IN
    IF st \in {"dir", "file"} /\ ~overwrite
    THEN [fs |-> f, err |-> "PathError:ErrExist"]
    ELSE IF st = "dir"
    THEN [fs |-> f, err |-> "PathError:destination is a directory"]
    ELSE OsWriteFile(f, destination, content, fault)

\* errors.Is(err, os.ErrExist).
IsErrExist(err) == err \in {"ErrExist", "PathError:ErrExist", "ErrDirExists"}

\* ------------------------------------------------------------------------
\* CopyFile
\* ------------------------------------------------------------------------

VARIABLES
    cpPc,      \* "start" before the call of CopyFile, "done" after its return
    cfs,       \* the files CopyFile works on: path -> entry with a mode
    cpErr,     \* the error CopyFile returned ("nil" for nil)
    cpFailed,  \* the first step of CopyFile that failed, "none" if none did
    cpClosed   \* the deferred Close calls that ran and failed or not

copyVars == <<cpPc, cfs, cpErr, cpFailed, cpClosed>>

\* The source path and the destination path of the modelled call.
CopySource == <<"s">>
CopyDestination == <<"d">>

\* Permission bits of the entries of cfs.
CopyModes == {"0600", "0644", "0755"}

\* The mode os.Create gives to a file it creates (0666 under umask 022).
CreatedMode == "0644"

CNoEntry == [kind |-> "none", content |-> <<>>, mode |-> "none"]

\* The steps of CopyFile that can fail, in the order of the code.
CopySteps == <<"open", "create", "copy", "sync", "stat", "chmod">>

\* What the environment does to one call of CopyFile: failAt is the step it
\* lets fail ("none": no step), closeDst and closeSrc tell whether the
\* deferred Close of the destination and of the source succeed.
CopyEnvs ==
    [failAt : {"none", "open", "create", "copy", "sync", "stat", "chmod"},
     closeDst : BOOLEAN, closeSrc : BOOLEAN]

\* The first step of CopyFile that fails on files f under environment env:
\* os.Open fails on a missing source, os.Create on a directory, io.Copy on
\* a source that is a directory.
CopyFirstFailure(f, sourcePath, destinationPath, env) ==
    IF f[sourcePath].kind = "none" \/ env.failAt = "open" THEN "open"
    ELSE IF f[destinationPath].kind = "dir" \/ env.failAt = "create" THEN "create"
    ELSE IF f[sourcePath].kind = "dir" \/ env.failAt = "copy" THEN "copy"
    ELSE env.failAt

\* Position of a step in CopySteps, 7 for "none" (every step ran).
StepNo(step) ==
    IF step = "none" THEN Len(CopySteps) + 1
    ELSE CHOOSE i \in 1..Len(CopySteps) : CopySteps[i] = step

\* The destination entry after CopyFile stopped at step failed.
CopyDestinationAfter(f, sourcePath, destinationPath, failed) ==
    LET old == f[destinationPath]
        created == [kind |-> "file", content |-> <<>>,
                    mode |-> IF old.kind = "file" THEN old.mode ELSE CreatedMode]
    IN
    IF StepNo(failed) <= StepNo("create") THEN old
    ELSE IF failed = "copy" THEN created
    ELSE IF StepNo(failed) <= StepNo("chmod")
    THEN [created EXCEPT !.content = f[sourcePath].content]
    ELSE [created EXCEPT !.content = f[sourcePath].content,
                         !.mode = f[sourcePath].mode]

\* The named result err of CopyFile when it returns: the failing step sets
\* it, then the deferred functions run, last registered first, and each
\* assigns the result of its Close to err.
CopyFileErr(failed, env) ==
    LET atReturn == IF failed = "none" THEN "nil" ELSE failed
        afterDst == IF StepNo(failed) > StepNo("create")
                    THEN (IF env.closeDst THEN "nil" ELSE "close destination")
                    ELSE atReturn
        afterSrc == IF StepNo(failed) > StepNo("open")
                    THEN (IF env.closeSrc THEN "nil" ELSE "close source")
                    ELSE afterDst
    IN
    afterSrc

\* CopyFile copies a file from one path to another.
CopyFile(f, sourcePath, destinationPath, env) ==
    LET failed == CopyFirstFailure(f, sourcePath, destinationPath, env) IN
    [ fs |-> [f EXCEPT ![destinationPath] =
                CopyDestinationAfter(f, sourcePath, destinationPath, failed)],
      err |-> CopyFileErr(failed, env),
      failed |-> failed,
      closed |-> IF failed = "open" THEN <<>>
                 ELSE IF StepNo(failed) > StepNo("create")
                 THEN <<[file |-> "destination", ok |-> env.closeDst],
                        [file |-> "source", ok |-> env.closeSrc]>>
                 ELSE <<[file |-> "source", ok |-> env.closeSrc]>> ]

\* The files a call of CopyFile may find.
CopyInitialFiles ==
    [{CopySource, CopyDestination} ->
        {CNoEntry}
        \cup [kind : {"file"}, content : {<<"c1">>, <<"c2">>}, mode : {"0600", "0644"}]
        \cup [kind : {"dir"}, content : {<<>>}, mode : {"0755"}]]

\* One call CopyFile(CopySource, CopyDestination, logger).
CopyFileCall ==
    /\ cpPc = "start"
    /\ \E env \in CopyEnvs :
        LET res == CopyFile(cfs, CopySource, CopyDestination, env) IN
        /\ cfs' = res.fs
        /\ cpErr' = res.err
        /\ cpFailed' = res.failed
        /\ cpClosed' = res.closed
        /\ cpPc' = "done"

CopyIdle ==
    /\ cpPc = "idle"
    /\ cfs = [p \in {CopySource, CopyDestination} |-> CNoEntry]
    /\ cpErr = "nil"
    /\ cpFailed = "none"
    /\ cpClosed = <<>>

CopyInit ==
    /\ cpPc = "start"
    /\ cfs \in CopyInitialFiles
    /\ cpErr = "nil"
    /\ cpFailed = "none"
    /\ cpClosed = <<>>

\* ------------------------------------------------------------------------
\* CopyDir
\* ------------------------------------------------------------------------

\* Largest number of elements of a path the operating system accepts (the
\* stand-in of PATH_MAX): a longer path makes every system call fail with
\* ENAMETOOLONG.
MaxDepth == 4

\* Largest number of system calls the environment lets fail during one call
\* of CopyDir for a reason outside the modelled tree.
MaxDirFaults == 1

\* Paths of this section are sequences of path elements. The names of the
\* entries of a directory, in the order os.ReadDir returns them (sorted by
\* filename).
EntryNames == <<"b", "d", "f", "l">>

\* Every path the operating system accepts.
DirPaths ==
    {p \in UNION {[1..n -> {"s", "d", "b", "f", "l"}] : n \in 1..MaxDepth} :
        /\ p[1] \in {"s", "d"}
        /\ \A i \in 2..Len(p) : \E k \in DOMAIN EntryNames : p[i] = EntryNames[k]}

VARIABLES
    dPc,       \* "start" before the call of CopyDir, "run" inside it, "done"
    dfs,       \* the filesystem: path -> entry with a mode
    dfs0,      \* the filesystem as it was when CopyDir was called
    dSrc,      \* argument sourceDir of the outermost call
    dDst,      \* argument destinationDir of the outermost call
    dStack,    \* the calls of CopyDir in progress, the innermost last:
               \* sourceDir, destinationDir and the entries its loop has
               \* still to handle
    dErr,      \* the error the outermost call returned ("nil" for nil)
    dCreated,  \* the directories os.MkdirAll created during the call
    dFaults    \* the system calls the environment let fail so far

dirVars == <<dPc, dfs, dfs0, dSrc, dDst, dStack, dErr, dCreated, dFaults>>

\* os.Stat(p) on filesystem f: the kind of the entry at p, "ENOENT" when
\* there is none, "ENAMETOOLONG" when the path is too long. (Every path
\* CopyDir stats has directories for ancestors.)
DirStat(f, p) ==
    IF Len(p) > MaxDepth THEN "ENAMETOOLONG"
    ELSE IF f[p].kind = "none" THEN "ENOENT"
    ELSE f[p].kind

\* os.ReadDir(p): the names of the entries of directory p, sorted.
ReadDir(f, p) ==
    IF Len(p) >= MaxDepth THEN <<>>
    ELSE SelectSeq(EntryNames, LAMBDA n : f[Append(p, n)].kind # "none")

\* CopyDir that does not look whether the destination exists.
CopyDirEnter_NoDestinationCheck(f, sourceDir, destinationDir, fault) ==
    LET srcStat == DirStat(f, sourceDir)
        dstStat == DirStat(f, destinationDir)
        failed(e) == [fs |-> f, err |-> e, entries |-> <<>>, created |-> {}]
    IN
    IF srcStat \in {"ENOENT", "ENAMETOOLONG"} THEN failed(srcStat)
    ELSE IF srcStat # "dir" THEN failed("source is not a directory")
    ELSE IF dstStat = "ENAMETOOLONG" THEN failed(dstStat)
    ELSE IF dstStat \in {"file", "symlink"} THEN failed("ENOTDIR")
    ELSE IF fault = "mkdir" THEN failed("EACCES")
    ELSE
    LET made == IF dstStat = "dir" THEN f
                ELSE [f EXCEPT ![destinationDir] =
                        [kind |-> "dir", content |-> <<>>,
                         mode |-> f[sourceDir].mode]]
    IN
    IF fault = "readdir"
    THEN [fs |-> made, err |-> "EIO", entries |-> <<>>,
          created |-> {destinationDir} \ {q \in {destinationDir} : dstStat = "dir"}]
    ELSE [fs |-> made, err |-> "nil", entries |-> ReadDir(made, sourceDir),
          created |-> {destinationDir} \ {q \in {destinationDir} : dstStat = "dir"}]

\* CopyDir from its first statement up to its loop: the checks of the two
\* paths, os.MkdirAll of the destination with the mode of the source, then
\* os.ReadDir of the source. fault is the system call the environment lets
\* fail ("none", "mkdir", "readdir"). entries is what the loop will range
\* over, created the directory made.
CopyDirEnter(f, sourceDir, destinationDir, fault) ==
    LET srcStat == DirStat(f, sourceDir)
        dstStat == DirStat(f, destinationDir)
        failed(e) == [fs |-> f, err |-> e, entries |-> <<>>, created |-> {}]
    IN
    IF srcStat \in {"ENOENT", "ENAMETOOLONG"} THEN failed(srcStat)
    ELSE IF srcStat # "dir" THEN failed("source is not a directory")
    ELSE IF dstStat = "ENAMETOOLONG" THEN failed(dstStat)
    ELSE IF dstStat # "ENOENT" THEN failed("destination already exists")
    ELSE IF fault = "mkdir" THEN failed("EACCES")
    ELSE
    LET made == [f EXCEPT ![destinationDir] =
                    [kind |-> "dir", content |-> <<>>,
                     mode |-> f[sourceDir].mode]]
    IN
    IF fault = "readdir"
    THEN [fs |-> made, err |-> "EIO", entries |-> <<>>,
          created |-> {destinationDir}]
    ELSE [fs |-> made, err |-> "nil", entries |-> ReadDir(made, sourceDir),
          created |-> {destinationDir}]

\* The environment of a call of CopyFile in which nothing fails.
CopyEnvOk == [failAt |-> "none", closeDst |-> TRUE, closeSrc |-> TRUE]

\* CopyFile called by the loop of CopyDir: on a destination path that is
\* too long os.Create fails.
DirCopyFile(f, sourcePath, destinationPath, env) ==
    IF Len(destinationPath) > MaxDepth
    THEN [fs |-> f,
          err |-> CopyFileErr(IF env.failAt = "open" THEN "open" ELSE "create",
                              env)]
    ELSE LET res == CopyFile(f, sourcePath, destinationPath, env) IN
         [fs |-> res.fs, err |-> res.err]

\* The faults the environment may produce in the entry part of CopyDir.
DirFaultChoices ==
    IF dFaults < MaxDirFaults THEN {"none", "mkdir", "readdir"} ELSE {"none"}

\* The environments a call of CopyFile may meet.
DirCopyEnvs == IF dFaults < MaxDirFaults THEN CopyEnvs ELSE {CopyEnvOk}

\* CopyDir returns err to its caller, which returns it to its own caller,
\* up to the outermost call.
CopyDirAbort(f, err) ==
    /\ dPc' = "done"
    /\ dfs' = f
    /\ dErr' = err
    /\ dStack' = <<>>

\* The outermost call CopyDir(dSrc, dDst, logger), up to its loop.
CopyDirCall ==
    /\ dPc = "start"
    /\ \E fault \in DirFaultChoices :
        LET c == CopyDirEnter(dfs, dSrc, dDst, fault) IN
        /\ dFaults' = dFaults + (IF fault # "none" /\ c.err \in {"EACCES", "EIO"}
                                 THEN 1 ELSE 0)
        /\ dCreated' = dCreated \cup c.created
        /\ IF c.err # "nil"
           THEN CopyDirAbort(c.fs, c.err)
           ELSE /\ dPc' = "run"
                /\ dfs' = c.fs
                /\ dStack' = <<[src |-> dSrc, dst |-> dDst, entries |-> c.entries]>>
                /\ dErr' = dErr
    /\ UNCHANGED <<dfs0, dSrc, dDst>>

\* One iteration of the loop of the innermost call: a directory entry is
\* copied by a recursive call, a symlink is skipped, any other entry is
\* copied by CopyFile.
CopyDirEntry ==
    /\ dPc = "run"
    /\ dStack[Len(dStack)].entries # <<>>
    /\ LET top == dStack[Len(dStack)]
           name == Head(top.entries)
           sourcePath == Append(top.src, name)
           destinationPath == Append(top.dst, name)
           rest == [dStack EXCEPT ![Len(dStack)].entries = Tail(top.entries)]
       IN
       IF dfs[sourcePath].kind = "dir"
       THEN \E fault \in DirFaultChoices :
            LET c == CopyDirEnter(dfs, sourcePath, destinationPath, fault) IN
            /\ dFaults' = dFaults + (IF fault # "none" /\ c.err \in {"EACCES", "EIO"}
                                     THEN 1 ELSE 0)
            /\ dCreated' = dCreated \cup c.created
            /\ IF c.err # "nil"
               THEN CopyDirAbort(c.fs, c.err)
               ELSE /\ dfs' = c.fs
                    /\ dStack' = Append(rest, [src |-> sourcePath,
                                               dst |-> destinationPath,
                                               entries |-> c.entries])
                    /\ UNCHANGED <<dPc, dErr>>
       ELSE IF dfs[sourcePath].kind = "symlink"
       THEN /\ dStack' = rest
            /\ UNCHANGED <<dPc, dfs, dErr, dCreated, dFaults>>
       ELSE \E env \in DirCopyEnvs :
            LET res == DirCopyFile(dfs, sourcePath, destinationPath, env) IN
            /\ dFaults' = dFaults + (IF env # CopyEnvOk THEN 1 ELSE 0)
            /\ dCreated' = dCreated
            /\ IF res.err # "nil"
               THEN CopyDirAbort(res.fs, res.err)
               ELSE /\ dfs' = res.fs
                    /\ dStack' = rest
                    /\ UNCHANGED <<dPc, dErr>>
    /\ UNCHANGED <<dfs0, dSrc, dDst>>

\* The loop of the innermost call is over: it returns nil, and its caller
\* goes on with its own loop.
CopyDirReturn ==
    /\ dPc = "run"
    /\ dStack[Len(dStack)].entries = <<>>
    /\ dStack' = SubSeq(dStack, 1, Len(dStack) - 1)
    /\ IF Len(dStack) = 1
       THEN dPc' = "done" /\ dErr' = "nil"
       ELSE UNCHANGED <<dPc, dErr>>
    /\ UNCHANGED <<dfs, dfs0, dSrc, dDst, dCreated, dFaults>>

\* The entries of a source directory and of its subdirectory b: the
\* directory may hold a regular file f, a symlink l and a directory b, which
\* may hold a regular file f.
SourceTrees ==
    [sMode : {"0755", "0700"}, hasF : BOOLEAN, hasL : BOOLEAN,
     sub : {"none", "empty", "file"}]

\* The filesystem with tree t at path <<"s">> and entry dstEntry at dst.
DirFilesystem(t, dst, dstEntry) ==
    [p \in DirPaths |->
        IF p = dst THEN dstEntry
        ELSE IF p = <<"s">>
        THEN [kind |-> "dir", content |-> <<>>, mode |-> t.sMode]
        ELSE IF p = <<"s", "f">> /\ t.hasF
        THEN [kind |-> "file", content |-> <<"c1">>, mode |-> "0644"]
        ELSE IF p = <<"s", "l">> /\ t.hasL
        THEN [kind |-> "symlink", content |-> <<>>, mode |-> "0777"]
        ELSE IF p = <<"s", "b">> /\ t.sub # "none"
        THEN [kind |-> "dir", content |-> <<>>, mode |-> "0755"]
        ELSE IF p = <<"s", "b", "f">> /\ t.sub = "file"
        THEN [kind |-> "file", content |-> <<"c2">>, mode |-> "0600"]
        ELSE CNoEntry]

\* What may be at the destination path before the call.
DestinationEntries ==
    { CNoEntry,
      [kind |-> "dir", content |-> <<>>, mode |-> "0755"],
      [kind |-> "file", content |-> <<"c3">>, mode |-> "0644"] }

\* The filesystems a call of CopyDir may find: the source is a directory
\* tree, a regular file or missing; the destination is beside the source or
\* inside it.
DirInitialFilesystems ==
    {DirFilesystem(t, dst, e) :
        t \in SourceTrees, dst \in {<<"d">>, <<"s", "d">>}, e \in DestinationEntries}
    \cup {[p \in DirPaths |->
            IF p = <<"s">> THEN sEntry ELSE IF p = <<"d">> THEN e ELSE CNoEntry] :
           sEntry \in {CNoEntry, [kind |-> "file", content |-> <<"c1">>, mode |-> "0644"]},
           e \in DestinationEntries}

CopyDirIdle ==
    /\ dPc = "idle"
    /\ dfs = <<>>
    /\ dfs0 = <<>>
    /\ dSrc = <<>>
    /\ dDst = <<>>
    /\ dStack = <<>>
    /\ dErr = "nil"
    /\ dCreated = {}
    /\ dFaults = 0

CopyDirInit ==
    /\ dPc = "start"
    /\ dfs \in DirInitialFilesystems
    /\ dfs0 = dfs
    /\ dSrc = <<"s">>
    /\ dDst \in {<<"d">>, <<"s", "d">>}
    /\ dStack = <<>>
    /\ dErr = "nil"
    /\ dCreated = {}
    /\ dFaults = 0

\* ------------------------------------------------------------------------
\* The render command
\* ------------------------------------------------------------------------

VARIABLES
    pc,            \* "start", "output" (in the loop over renders), "prompt"
                   \* (blocked in ui.Input), "exit"
    fs,            \* the filesystem: path -> entry
    interactive,   \* c.ui.Interactive()
    autoApproved,  \* c.autoApproved
    renderToDir,   \* c.renderToDir
    renderOutputTemplate, \* c.renderOutputTemplate
    renders,       \* the renders list of Run, in output order
    idx,           \* index of the render the loop of Run is at
    reads,         \* ui.Input calls made by the current prompt loop
    pending,       \* locals of toFile while it is blocked at the prompt
    term,          \* what toTerminal wrote: one record per call
    diag,          \* what ui.ErrorWithContext reported
    ec,            \* the UIErrorContext shared by all renders
    exitCode,      \* the value Run returned, -1 while it runs
    outcomes,      \* per handled render: what toFile and Output did
    events         \* the file writes and terminal writes, in the order made

renderVars ==
    <<pc, fs, interactive, autoApproved, renderToDir, renderOutputTemplate,
      renders, idx, reads, pending, term, diag, ec, exitCode, outcomes,
      events>>

\* The variables of the helpers when they are called on their own.
helperVars == <<copyVars, formatVars, dirVars>>

\* RenderContextDestFile
RenderContextDestFile == "Destination File: "

NoPending ==
    [outFile |-> <<>>, createErr |-> "nil", statBefore |-> "ENOENT",
     before |-> NoEntry, autoBefore |-> FALSE]

\* UIErrorContext.Add appends a label/value pair.
ecAdd(ctx, label, value) == Append(ctx, <<label, value>>)

\* maybeConfirmOverwrite without its test of c.autoApproved.
ConfirmGate_NoAutoCheck(auto, exists, isInteractive) ==
    IF ~exists THEN "approve"
    ELSE IF ~isInteractive THEN "decline"
    ELSE "prompt"

\* maybeConfirmOverwrite testing the interactivity before the existence.
ConfirmGate_InteractiveFirst(auto, exists, isInteractive) ==
    IF auto THEN "approve"
    ELSE IF ~isInteractive THEN "decline"
    ELSE IF ~exists THEN "approve"
    ELSE "prompt"

\* The part of maybeConfirmOverwrite before its loop: "approve" is
\* (true, nil), "decline" is (false, nil), "prompt" enters the loop.
ConfirmGate(auto, exists, isInteractive) ==
    IF auto THEN "approve"
    ELSE IF ~exists THEN "approve"
    ELSE IF ~isInteractive THEN "decline"
    ELSE "prompt"

\* A loop of maybeConfirmOverwrite that also sets c.autoApproved on "y".
ConfirmAnswer_AutoOnYes(line) ==
    LET overwrite == ToLower(line) IN
    [ returns |-> overwrite \in {"y", "n", "a"},
      setAuto |-> overwrite \in {"a", "y"},
      overwrite |-> overwrite = "y" ]

\* One iteration of the loop of maybeConfirmOverwrite on a line that was
\* read: whether the loop returns, what it returns, whether it sets
\* c.autoApproved.
ConfirmAnswer(line) ==
    LET overwrite == ToLower(line) IN
    [ returns |-> overwrite \in {"y", "n", "a"},
      setAuto |-> overwrite = "a",
      overwrite |-> overwrite = "y" ]

\* Render.toFile writing the file whatever maybeConfirmOverwrite answered.
toFileAfterConfirm_WriteAnyway(f, content, outFile, overwrite, cerr, auto, ctx, fault) ==
    IF cerr # "nil" THEN [fs |-> f, err |-> cerr, ec |-> ctx]
    ELSE LET w == WriteFile(f, outFile, content, TRUE, fault) IN
         IF w.err # "nil"
         THEN [fs |-> w.fs, err |-> w.err,
               ec |-> ecAdd(ctx, RenderContextDestFile, outFile)]
         ELSE [fs |-> w.fs, err |-> "nil", ec |-> ctx]

\* Render.toFile after maybeConfirmOverwrite returned (overwrite, cerr).
toFileAfterConfirm(f, content, outFile, overwrite, cerr, auto, ctx, fault) ==
    IF cerr # "nil" THEN [fs |-> f, err |-> cerr, ec |-> ctx]
    ELSE IF ~overwrite THEN [fs |-> f, err |-> "ErrExist", ec |-> ctx]
    ELSE LET w == WriteFile(f, outFile, content, auto \/ overwrite, fault) IN
         IF w.err # "nil"
         THEN [fs |-> w.fs, err |-> w.err,
               ec |-> ecAdd(ctx, RenderContextDestFile, outFile)]
         ELSE [fs |-> w.fs, err |-> "nil", ec |-> ctx]

\* Render.Output showing on the terminal only what it wrote to a file.
OutputAfterToFile_PresentOnlyWritten(err) ==
    IF err = "nil" THEN [present |-> TRUE, err |-> "nil"]
    ELSE [present |-> FALSE, err |-> IF err = "notcalled" THEN "nil" ELSE err]

\* Render.Output after toFile returned err ("notcalled" when renderToDir is
\* empty): whether toTerminal runs, and the error Output returns.
OutputAfterToFile(err) ==
    IF err \notin {"notcalled", "nil"} /\ IsErrExist(err)
    THEN [present |-> FALSE, err |-> err]
    ELSE [present |-> TRUE, err |-> "nil"]

\* Render.Output calling toTerminal before toFile.
OutputEvents_TerminalFirst(i, err, present) ==
    (IF present THEN <<[ev |-> "present", render |-> i]>> ELSE <<>>)
    \o (IF err = "nil" THEN <<[ev |-> "write", render |-> i]>> ELSE <<>>)

\* What Render.Output did for render i, in the order of its statements:
\* the write of toFile when it completed (err is nil), then toTerminal.
OutputEvents(i, err, present) ==
    (IF err = "nil" THEN <<[ev |-> "write", render |-> i]>> ELSE <<>>)
    \o (IF present THEN <<[ev |-> "present", render |-> i]>> ELSE <<>>)

\* The environment faults that took effect so far in the run.
FaultsSoFar ==
    Cardinality({i \in DOMAIN outcomes : outcomes[i].fault # "none"})
    + (IF pending.createErr = "EACCES" THEN 1 ELSE 0)

\* The faults the environment may produce now.
FaultChoices == IF FaultsSoFar < MaxFaults THEN EnvFaults ELSE {"none"}

\* The rest of Render.Output for render idx, and the loop of Run around it:
\* the error report, the step to the next render, the return of Run.
FinishOutput(tf, gate, answer, nreads, overwrite, auto, pend, fault) ==
    LET r == renders[idx]
        out == OutputAfterToFile(tf.err)
        effective == IF pend.createErr = "EACCES" THEN "mkdir"
                     ELSE IF tf.err \in {"EACCES", "EIO"} THEN fault
                     ELSE "none"
    IN
    /\ fs' = tf.fs
    /\ ec' = tf.ec
    /\ autoApproved' = auto
    /\ term' = IF out.present
               THEN Append(term, [name |-> r.Name, content |-> r.Content])
               ELSE term
    /\ diag' = IF out.err # "nil"
               THEN Append(diag, [err |-> out.err,
                                  msg |-> "error rendering to file",
                                  ctx |-> tf.ec])
               ELSE diag
    /\ outcomes' = Append(outcomes,
            [ name |-> r.Name, outFile |-> pend.outFile,
              createErr |-> pend.createErr, statBefore |-> pend.statBefore,
              before |-> pend.before, autoBefore |-> pend.autoBefore,
              autoAfter |-> auto,
              gate |-> gate, answer |-> answer, reads |-> nreads,
              overwrite |-> overwrite, toFileErr |-> tf.err,
              fault |-> effective,
              after |-> IF pend.outFile = <<>> THEN NoEntry
                        ELSE tf.fs[pend.outFile],
              presented |-> out.present, reported |-> out.err # "nil",
              reportedErr |-> out.err,
              reportedCtx |-> IF out.err # "nil" THEN tf.ec ELSE <<>> ])
    /\ events' = events \o OutputEvents(idx, tf.err, out.present)
    /\ idx' = idx + 1
    /\ reads' = 0
    /\ pending' = NoPending
    /\ IF idx = Len(renders)
       THEN pc' = "exit" /\ exitCode' = 0
       ELSE pc' = "output" /\ exitCode' = exitCode
    /\ UNCHANGED <<interactive, renderToDir, renderOutputTemplate, renders>>

\* A setup failure of Run: the error is reported and Run returns 1.
SetupFail(err, msg) ==
    /\ pc' = "exit"
    /\ exitCode' = 1
    /\ diag' = Append(diag, [err |-> err, msg |-> msg, ctx |-> ec])
    /\ UNCHANGED <<fs, interactive, renders, idx, reads, pending, term, ec,
                   outcomes, events>>

\* The Render values Run builds from one group of rendered templates, in the
\* order in which the map was iterated. group records the loop that built
\* the render.
RendersOf(names, group) ==
    [i \in 1..Len(names) |->
        [Name |-> formatRenderName(names[i]), Content |-> ContentOf(names[i]),
         group |-> group]]

\* A zero-renders test that counts the output template as a render.
NoTemplatesRendered_CountingOutputs(parents, dependents, outputs) ==
    parents + dependents + outputs < 1

\* The zero-renders test of Run, made before the output template is
\* processed: outputs, the number of renders the output template would
\* give, is not looked at.
NoTemplatesRendered(parents, dependents, outputs) ==
    parents < 1 /\ dependents < 1

\* The fast-fail condition of Run; pathStat is os.Stat of packPath.
OutputPathIsFile(packPath, pathStat) ==
    Exists(packPath, pathStat, TRUE) /\ ~IsDir(packPath, pathStat, TRUE)

\* RenderCommand.Run up to its output loop: argument and flag parsing, the
\* pack lookup, the client, the output path check, the rendering, the
\* assembly of the renders list.
RunSetup ==
    /\ pc = "start"
    /\ UNCHANGED helperVars
    /\ \E initOk \in BOOLEAN :
        IF ~initOk
        THEN /\ SetupFail("init", "error parsing args or flags")
             /\ UNCHANGED <<autoApproved, renderToDir, renderOutputTemplate>>
        ELSE
        \E toDir \in {<<>>, ToDir}, auto \in BOOLEAN, rot \in BOOLEAN :
        /\ renderToDir' = toDir
        /\ autoApproved' = auto
        /\ renderOutputTemplate' = rot
        /\ \E setup \in {"ok", "pack not found", "failed to initialize client",
                         "failed to render"} :
            IF setup # "ok" THEN SetupFail(setup, setup)
            ELSE
            \E packPath \in {<<>>, <<"p">>}, pathStat \in {"dir", "file", "ENOENT"} :
            IF OutputPathIsFile(packPath, pathStat)
            THEN SetupFail("output path exists and is not a directory",
                           "failed to create output directory")
            ELSE
            \E deps \in MapIterations(DepUniverse), pars \in MapIterations(ParUniverse),
               otOk \in BOOLEAN :
            IF NoTemplatesRendered(Len(pars), Len(deps),
                                   IF rot /\ otOk THEN 1 ELSE 0)
            THEN SetupFail("ErrNoTemplatesRendered", "no templates rendered")
            ELSE
            Len(deps) + Len(pars) + (IF rot /\ otOk THEN 1 ELSE 0) <= MaxBatch /\
            LET base == RendersOf(deps, "dependent") \o RendersOf(pars, "parent")
                ot == [Name |-> StrOutputsTpl, Content |-> ContentOf(StrOutputsTpl),
                       group |-> "output"]
            IN
            /\ renders' = IF rot /\ otOk THEN Append(base, ot) ELSE base
            /\ diag' = IF rot /\ ~otOk
                       THEN Append(diag, [err |-> "output template",
                                          msg |-> "failed to render output template",
                                          ctx |-> ec])
                       ELSE diag
            /\ pc' = "output"
            /\ idx' = 1
            /\ UNCHANGED <<fs, interactive, reads, pending, term, ec, exitCode,
                           outcomes, events>>

\* One iteration of the output loop of Run: Render.Output on render idx, up
\* to its end or up to the prompt of maybeConfirmOverwrite.
OutputRender ==
    /\ pc = "output"
    /\ UNCHANGED helperVars
    /\ LET r == renders[idx] IN
       IF renderToDir = <<>>
       THEN FinishOutput([fs |-> fs, err |-> "notcalled", ec |-> ec],
                         "none", "", 0, FALSE, autoApproved, NoPending, "none")
       ELSE
       \E fault \in FaultChoices :
       LET split == PathSplit(r.Name)
           outDir == PathJoin(renderToDir, split.dir)
           cp == CreatePath(fs, outDir, FALSE, fault)
           outFile == PathJoin(outDir, split.file)
           pend == [outFile |-> outFile, createErr |-> cp.err,
                    statBefore |-> Stat(fs, outFile), before |-> fs[outFile],
                    autoBefore |-> autoApproved]
           gate == ConfirmGate(autoApproved,
                               Exists(outFile, Stat(cp.fs, outFile), FALSE),
                               interactive)
       IN
       IF gate = "prompt"
       THEN /\ pc' = "prompt"
            /\ fs' = cp.fs
            /\ pending' = pend
            /\ reads' = 0
            /\ UNCHANGED <<interactive, autoApproved, renderToDir,
                           renderOutputTemplate, renders, idx, term, diag, ec,
                           exitCode, outcomes, events>>
       ELSE FinishOutput(
                toFileAfterConfirm(cp.fs, r.Content, outFile, gate = "approve",
                                   "nil", autoApproved, ec, fault),
                gate, "", 0, gate = "approve", autoApproved, pend, fault)

\* ui.Input returns a line to the loop of maybeConfirmOverwrite: the loop
\* reads again on an invalid line, otherwise toFile and Output go on.
PromptAnswer ==
    /\ pc = "prompt"
    /\ UNCHANGED helperVars
    /\ \E line \in Responses, fault \in FaultChoices \ {"mkdir"} :
        LET a == ConfirmAnswer(line)
            auto == autoApproved \/ a.setAuto
        IN
        IF ~a.returns
        THEN /\ reads + 1 < MaxReads
             /\ reads' = reads + 1
             /\ UNCHANGED <<pc, fs, interactive, autoApproved, renderToDir,
                            renderOutputTemplate, renders, idx, pending, term,
                            diag, ec, exitCode, outcomes, events>>
        ELSE FinishOutput(
                toFileAfterConfirm(fs, renders[idx].Content, pending.outFile,
                                   a.overwrite, "nil", auto, ec, fault),
                "prompt", ToLower(line), reads + 1, a.overwrite, auto, pending,
                fault)

\* ui.Input fails (interrupt, closed input): maybeConfirmOverwrite returns
\* (false, err).
PromptReadError ==
    /\ pc = "prompt"
    /\ UNCHANGED helperVars
    /\ FinishOutput(
            toFileAfterConfirm(fs, renders[idx].Content, pending.outFile,
                               FALSE, "InputErr", autoApproved, ec, "none"),
            "prompt", "readerr", reads + 1, FALSE, autoApproved, pending, "none")

RenderInit ==
    /\ pc = "start"
    /\ fs \in InitialFilesystems
    /\ interactive \in BOOLEAN
    /\ autoApproved = FALSE
    /\ renderToDir = <<>>
    /\ renderOutputTemplate = FALSE
    /\ renders = <<>>
    /\ idx = 0
    /\ reads = 0
    /\ pending = NoPending
    /\ term = <<>>
    /\ diag = <<>>
    /\ ec = <<>>
    /\ exitCode = -1
    /\ outcomes = <<>>
    /\ events = <<>>

\* The render command before Run is called, for the runs of CopyFile alone.
RenderIdle ==
    /\ pc = "idle"
    /\ fs = [p \in FsPaths |-> NoEntry]
    /\ interactive = FALSE
    /\ autoApproved = FALSE
    /\ renderToDir = <<>>
    /\ renderOutputTemplate = FALSE
    /\ renders = <<>>
    /\ idx = 0
    /\ reads = 0
    /\ pending = NoPending
    /\ term = <<>>
    /\ diag = <<>>
    /\ ec = <<>>
    /\ exitCode = -1
    /\ outcomes = <<>>
    /\ events = <<>>

vars == <<renderVars, copyVars, formatVars, dirVars>>

\* The runs of the render command.
Init == RenderInit /\ CopyIdle /\ FormatIdle /\ CopyDirIdle

Next ==
    \/ RunSetup
    \/ OutputRender
    \/ PromptAnswer
    \/ PromptReadError

Spec == Init /\ [][Next]_vars

\* The calls of CopyFile.
InitCopy == CopyInit /\ RenderIdle /\ FormatIdle /\ CopyDirIdle

NextCopy == CopyFileCall /\ UNCHANGED <<renderVars, formatVars, dirVars>>

SpecCopy == InitCopy /\ [][NextCopy]_vars

\* The calls of formatRenderName.
InitFormat == FormatInit /\ RenderIdle /\ CopyIdle /\ CopyDirIdle

NextFormat == FormatCall /\ UNCHANGED <<renderVars, copyVars, dirVars>>

SpecFormat == InitFormat /\ [][NextFormat]_vars

\* The calls of CopyDir.
InitDir == CopyDirInit /\ RenderIdle /\ CopyIdle /\ FormatIdle

NextDir ==
    \/ CopyDirCall /\ UNCHANGED <<renderVars, copyVars, formatVars>>
    \/ CopyDirEntry /\ UNCHANGED <<renderVars, copyVars, formatVars>>
    \/ CopyDirReturn /\ UNCHANGED <<renderVars, copyVars, formatVars>>

SpecDir == InitDir /\ [][NextDir]_vars

\* ------------------------------------------------------------------------
\* Properties
\* ------------------------------------------------------------------------

Range(q) == {q[i] : i \in DOMAIN q}

\* TRUE iff Render.toFile ran for the render of outcome o.
WriteInvoked(o) == o.toFileErr # "notcalled"

\* C1: every render the output loop handled was shown on the terminal,
\* whatever toFile returned for it.
C1_PresentedWhateverWriteReturned ==
    \A i \in DOMAIN outcomes : outcomes[i].presented

\* C2: a failed read at the prompt for render i ends the dispatch at once:
\* render i is the last one handled and Run returns 1.
C2_CancellationAborts ==
    \A i \in DOMAIN outcomes :
        outcomes[i].answer = "readerr" =>
            /\ Len(outcomes) = i
            /\ pc = "exit"
            /\ exitCode = 1

\* C3: at the prompt, `a` sets autoApproved and returns (true, nil), so that
\* the file is not refused as existing; `y` returns (true, nil) and `n`
\* returns (false, nil), both leaving autoApproved as it was.
C3_PromptAnswers ==
    \A i \in DOMAIN outcomes :
        LET o == outcomes[i] IN
        /\ o.answer = "a" => o.autoAfter /\ o.overwrite /\ ~IsErrExist(o.toFileErr)
        /\ o.answer = "y" => o.overwrite /\ o.autoAfter = o.autoBefore
        /\ o.answer = "n" => ~o.overwrite /\ o.autoAfter = o.autoBefore

\* C4: once autoApproved is true (set by the flag, or by an earlier `a`),
\* every later maybeConfirmOverwrite returns (true, nil) without reading
\* input, whether or not the path exists or the session is interactive; and
\* no prompt is open while autoApproved is true.
C4_AutoApproveSkipsPrompt ==
    /\ pc = "prompt" => ~autoApproved
    /\ \A j \in DOMAIN outcomes :
        LET o == outcomes[j] IN
        ( /\ WriteInvoked(o)
          /\ \/ o.autoBefore
             \/ \E i \in 1..(j - 1) : outcomes[i].answer = "a" )
        => o.gate = "approve" /\ o.reads = 0 /\ o.overwrite

\* C4 witness: after an `a`, a later render whose file exists is approved
\* without a prompt in an interactive session.
C4_Witness ==
    \E i, j \in DOMAIN outcomes :
        /\ i < j
        /\ outcomes[i].answer = "a"
        /\ interactive
        /\ outcomes[j].statBefore = "file"
        /\ outcomes[j].gate = "approve"
        /\ outcomes[j].reads = 0

GroupRank(g) ==
    CASE g = "dependent" -> 1
      [] g = "parent" -> 2
      [] g = "output" -> 3

\* C5: the renders are output dependent renders first, then parent renders,
\* then the output-template render, and sorted by name within the dependent
\* and the parent renders.
C5_SortedOutputOrder ==
    \A i, j \in DOMAIN outcomes :
        i < j =>
            /\ GroupRank(renders[i].group) <= GroupRank(renders[j].group)
            /\ renders[i].group = renders[j].group
                => ~StrLess(renders[j].Name, renders[i].Name)

\* C6: every error of toFile other than the failed read is reported, and an
\* I/O failure is reported with the destination file in its context.
C6_WriteErrorsReported ==
    \A i \in DOMAIN outcomes :
        LET o == outcomes[i] IN
        o.toFileErr \notin {"notcalled", "nil", "InputErr"} =>
            /\ o.reported
            /\ o.reportedErr = o.toFileErr
            /\ ~IsErrExist(o.toFileErr)
                => <<RenderContextDestFile, o.outFile>> \in Range(o.reportedCtx)

\* C7: when a step of CopyFile failed, CopyFile returned a non-nil error.
C7_CopyFileReturnsFailure ==
    cpPc = "done" => (cpFailed # "none" => cpErr # "nil")

\* C8 as stated: when nothing exists at the destination path as toFile is
\* called, toFile returns nil and the file then holds the render's content.
C8_WriteSucceedsWhenAbsent ==
    \A i \in DOMAIN outcomes :
        LET o == outcomes[i] IN
        WriteInvoked(o) /\ o.statBefore \in {"ENOENT", "ENOTDIR"} =>
            /\ o.toFileErr = "nil"
            /\ o.after = FileEntry(renders[i].Content)

\* C8 amended: when nothing exists at the destination path as toFile is
\* called, the name has a file part, the destination directory exists or is
\* created, and the environment fails no operation, then toFile returns nil
\* without a prompt, interactive or not, auto-approved or not, and the file
\* then holds the render's content.
C8_WriteSucceedsWhenAbsentAndNoFsError ==
    \A i \in DOMAIN outcomes :
        LET o == outcomes[i] IN
        ( /\ WriteInvoked(o)
          /\ o.statBefore \in {"ENOENT", "ENOTDIR"}
          /\ PathSplit(o.name).file # <<>>
          /\ o.createErr = "nil"
          /\ o.fault = "none" )
        => /\ o.toFileErr = "nil"
           /\ o.reads = 0
           /\ o.after = FileEntry(renders[i].Content)

\* C8 witness: a non-interactive run without auto-approve wrote a file that
\* did not exist.
C8_Witness ==
    \E i \in DOMAIN outcomes :
        /\ ~interactive
        /\ ~outcomes[i].autoBefore
        /\ outcomes[i].statBefore = "ENOENT"
        /\ outcomes[i].toFileErr = "nil"
        /\ outcomes[i].after = FileEntry(renders[i].Content)

\* C9: when --to-dir names an existing file, Run returns 1 and no render is
\* presented.
C9_ToDirIsFileFailsSetup ==
    (renderToDir # <<>> /\ fs[renderToDir].kind = "file") =>
        /\ term = <<>>
        /\ outcomes = <<>>
        /\ pc = "exit" => exitCode = 1

\* C10: when the destination file exists, autoApproved is false and the
\* session is not interactive or the user answers `n`, toFile returns the
\* already-exists error and leaves the file as it was; and a run that
\* reached the output loop returns 0.
C10_DeclineKeepsFile ==
    /\ \A i \in DOMAIN outcomes :
        LET o == outcomes[i] IN
        ( /\ WriteInvoked(o)
          /\ o.statBefore = "file"
          /\ ~o.autoBefore
          /\ ~interactive \/ o.answer = "n" )
        => /\ IsErrExist(o.toFileErr)
           /\ o.after = o.before
           /\ fs[o.outFile] = o.before \/ \E k \in (i + 1)..Len(outcomes) :
                                            outcomes[k].outFile = o.outFile
    /\ (pc = "exit" /\ outcomes # <<>>) => exitCode = 0

\* C10 witness: the user answered `n` for an existing file, the file kept
\* its content and Run returned 0.
C10_Witness ==
    \E i \in DOMAIN outcomes :
        /\ outcomes[i].statBefore = "file"
        /\ outcomes[i].answer = "n"
        /\ outcomes[i].after = FileEntry(OldContent)
        /\ pc = "exit"
        /\ exitCode = 0

\* C11: in a run with an empty renderToDir no step creates or changes a
\* file or directory, no step prompts or reads an answer, and every render
\* the output loop handles is written to the terminal.
C11_EmptyToDirOnlyPresents ==
    [][ renderToDir' = <<>> =>
          /\ fs' = fs
          /\ pc' # "prompt"
          /\ reads' = 0
          /\ outcomes' # outcomes =>
                /\ term' = Append(term, [name |-> renders[idx].Name,
                                         content |-> renders[idx].Content])
                /\ ~WriteInvoked(outcomes'[Len(outcomes')])
                /\ outcomes'[Len(outcomes')].reads = 0 ]_vars

\* C11 witness: an interactive run without --to-dir handled its two renders
\* over a filesystem that holds a file at a render's name.
C11_Witness ==
    /\ renderToDir = <<>>
    /\ interactive
    /\ pc = "exit"
    /\ Len(renders) = 2
    /\ Len(term) = 2
    /\ \E p \in FsPaths : fs[p] = FileEntry(OldContent)

\* C14: when there are no dependent and no parent renders, Run reports
\* ErrNoTemplatesRendered and returns 1 with nothing written or shown; the
\* output loop never runs on a batch that holds only the output template.
C14_NoTemplatesRenderedFails ==
    /\ (\E i \in DOMAIN diag : diag[i].err = "ErrNoTemplatesRendered")
       => /\ pc = "exit"
          /\ exitCode = 1
          /\ renders = <<>>
          /\ term = <<>>
          /\ outcomes = <<>>
          /\ events = <<>>
    /\ (pc \in {"output", "prompt"} \/ outcomes # <<>>)
       => \E i \in DOMAIN renders : renders[i].group \in {"dependent", "parent"}

\* C14 witness: --render-output-template was set and Run failed with
\* ErrNoTemplatesRendered.
C14_Witness ==
    /\ renderOutputTemplate
    /\ pc = "exit"
    /\ exitCode = 1
    /\ \E i \in DOMAIN diag : diag[i].err = "ErrNoTemplatesRendered"

\* "mypack/templates/job.nomad.tpl"
StrMypackRaw ==
    <<"m", "y", "p", "a", "c", "k">> \o StrTemplates
    \o <<"j", "o", "b", ".", "n", "o", "m", "a", "d", ".", "t", "p", "l">>

\* "mypack/job.nomad"
StrMypackFormatted ==
    <<"m", "y", "p", "a", "c", "k", "/", "j", "o", "b", ".", "n", "o", "m", "a", "d">>

\* C15: the value formatRenderName returns is the raw name in which the
\* first "/templates/" (if any) is replaced by "/", cut after its last
\* character that is not one of '.', 't', 'p', 'l';
\* "mypack/templates/job.nomad.tpl" gives "mypack/job.nomad".
C15_FormatReplacesFirstAndTrimsCutset ==
    fmtPc = "done" =>
        LET occ == {i \in 1..Len(fmtName) : HasAt(fmtName, StrTemplates, i)}
            first == CHOOSE i \in occ : \A j \in occ : i <= j
            mid == IF occ = {} THEN fmtName
                   ELSE SubSeq(fmtName, 1, first - 1) \o <<"/">>
                        \o SubSeq(fmtName, first + Len(StrTemplates), Len(fmtName))
            n == Len(fmtOut)
        IN
        /\ n <= Len(mid)
        /\ \A k \in 1..n : fmtOut[k] = mid[k]
        /\ \A k \in (n + 1)..Len(mid) : mid[k] \in {".", "t", "p", "l"}
        /\ n > 0 => fmtOut[n] \notin {".", "t", "p", "l"}
        /\ fmtName = StrMypackRaw => fmtOut = StrMypackFormatted

\* C15 witness: formatRenderName was called on
\* "mypack/templates/job.nomad.tpl".
C15_Witness ==
    /\ fmtPc = "done"
    /\ fmtName = StrMypackRaw
    /\ fmtOut = StrMypackFormatted

\* C16: with renderToDir set, the write of a render's file comes before the
\* terminal write of that render and after the terminal write of the render
\* before it, and nothing of a parent render comes before anything of a
\* dependent render.
C16_WriteBeforePresentInOrder ==
    renderToDir # <<>> =>
    \A a \in DOMAIN events, b \in DOMAIN events :
        LET ea == events[a]
            eb == events[b]
        IN
        /\ (ea.ev = "write" /\ eb.ev = "present" /\ ea.render = eb.render)
           => a < b
        /\ (ea.ev = "present" /\ eb.ev = "write" /\ eb.render = ea.render + 1)
           => a < b
        /\ (renders[ea.render].group = "dependent"
            /\ renders[eb.render].group = "parent")
           => a < b

\* C16 witness: a dependent render and a parent render were both written
\* and shown.
C16_Witness ==
    /\ renderToDir # <<>>
    /\ pc = "exit"
    /\ Len(events) = 4
    /\ renders[1].group = "dependent"
    /\ renders[2].group = "parent"

\* C17: once Run has parsed its flags, no step sets autoApproved back to
\* false, and the only step that changes it is the prompt loop of
\* maybeConfirmOverwrite returning on the answer `a`.
C17_AutoApprovedOnlySetByAnswerA ==
    [][ /\ autoApproved => autoApproved'
        /\ (autoApproved' # autoApproved /\ pc # "start")
           => /\ pc = "prompt"
              /\ Len(outcomes') = Len(outcomes) + 1
              /\ outcomes'[Len(outcomes')].answer = "a" ]_vars

\* C17 witness: the answer `a` set autoApproved, and it was still set when
\* the next render was handled.
C17_Witness ==
    /\ autoApproved
    /\ Len(outcomes) = 2
    /\ outcomes[1].answer = "a"
    /\ ~outcomes[1].autoBefore
    /\ outcomes[2].autoBefore

\* TRUE iff renders i < j have the same output name, render i was written,
\* and no filesystem failure hit render j.
DuplicatePair(i, j) ==
    /\ i < j
    /\ WriteInvoked(outcomes[i])
    /\ WriteInvoked(outcomes[j])
    /\ outcomes[i].name = outcomes[j].name
    /\ outcomes[i].toFileErr = "nil"
    /\ outcomes[j].fault = "none"

\* C18 as claimed: the later of two renders with one output name replaces
\* the file of the earlier one without prompt and without error, in every
\* session mode.
C18_DuplicateSilentlyOverwrites ==
    \A i \in DOMAIN outcomes, j \in DOMAIN outcomes :
        DuplicatePair(i, j)
        => /\ outcomes[j].reads = 0
           /\ ~outcomes[j].reported
           /\ outcomes[j].after = FileEntry(renders[j].Content)

\* C18: the later of two renders with one output name meets the file of the
\* earlier one as an existing file: it replaces it without prompt and error
\* only if autoApproved is set; otherwise a non-interactive run declines
\* with the already-exists error and keeps the earlier content, and an
\* interactive run prompts.
C18_DuplicateGoesThroughGate ==
    \A i \in DOMAIN outcomes, j \in DOMAIN outcomes :
        DuplicatePair(i, j)
        => LET o == outcomes[j] IN
           /\ o.statBefore = "file"
           /\ o.before = FileEntry(renders[i].Content)
           /\ o.autoBefore
              => /\ o.reads = 0
                 /\ ~o.reported
                 /\ o.after = FileEntry(renders[j].Content)
           /\ (~o.autoBefore /\ ~interactive)
              => /\ o.reads = 0
                 /\ IsErrExist(o.toFileErr)
                 /\ o.reported
                 /\ ~o.presented
                 /\ o.after = FileEntry(renders[i].Content)
           /\ (~o.autoBefore /\ interactive) => o.reads >= 1

\* C18 witness: in a non-interactive run the second of two renders named
\* alike was declined and the file kept the content of the first.
C18_Witness ==
    /\ ~interactive
    /\ Len(outcomes) = 2
    /\ DuplicatePair(1, 2)
    /\ IsErrExist(outcomes[2].toFileErr)
    /\ fs[outcomes[2].outFile] = FileEntry(renders[1].Content)

\* C19: a step changes an existing file only while handling the render
\* whose destination it is, and only if autoApproved was set when the
\* render was taken up or the user answered `y` for it.
C19_ExistingFileChangedOnlyWhenApproved ==
    [][ \A p \in FsPaths :
          (fs[p].kind = "file" /\ fs'[p] # fs[p])
          => /\ Len(outcomes') = Len(outcomes) + 1
             /\ LET o == outcomes'[Len(outcomes')] IN
                /\ o.outFile = p
                /\ o.autoBefore \/ o.answer = "y" ]_vars

\* C19 witness: an existing file was replaced after the answer `y`, and
\* another existing file was kept after a failed read of the answer.
C19_Witness ==
    /\ Len(outcomes) = 2
    /\ \E i \in DOMAIN outcomes :
        /\ outcomes[i].statBefore = "file"
        /\ outcomes[i].answer = "y"
        /\ outcomes[i].after = FileEntry(renders[i].Content)
    /\ \E i \in DOMAIN outcomes :
        /\ outcomes[i].statBefore = "file"
        /\ outcomes[i].answer = "readerr"
        /\ outcomes[i].after = outcomes[i].before

\* C12: CopyDir returns an error when the destination exists, as a file or
\* as a directory, and when the source exists and is not a directory; the
\* filesystem is then as it was before the call.
C12_CopyDirRefusesBadPaths ==
    ( /\ dPc = "done"
      /\ \/ dfs0[dDst].kind # "none"
         \/ dfs0[dSrc].kind \in {"file", "symlink"} )
    => /\ dErr # "nil"
       /\ dfs = dfs0
       /\ dCreated = {}

\* C12 witness: CopyDir was called on a source directory that holds
\* entries and a destination that is a directory, and returned the
\* destination-exists error.
C12_Witness ==
    /\ dPc = "done"
    /\ dfs0[dSrc].kind = "dir"
    /\ dfs0[Append(dSrc, "f")].kind = "file"
    /\ dfs0[dDst].kind = "dir"
    /\ dErr = "destination already exists"

\* The entries below directory root on filesystem f, by their path relative
\* to root, without their modes.
TreeUnder(f, root) ==
    { [rel |-> SubSeq(p, Len(root) + 1, Len(p)), kind |-> f[p].kind,
       content |-> f[p].content] :
        p \in {q \in DirPaths : /\ Len(q) > Len(root)
                                /\ SubSeq(q, 1, Len(root)) = root
                                /\ f[q].kind # "none"} }

\* C13 as claimed: after CopyDir returned nil, the tree under the destination
\* holds the directories and regular files of the tree under the source, with
\* their names and contents, and nothing else (no symlink).
C13_CopyDirCopiesTree ==
    (dPc = "done" /\ dErr = "nil")
    => TreeUnder(dfs, dDst) = {e \in TreeUnder(dfs, dSrc) : e.kind # "symlink"}

\* C20 as claimed: no call of CopyDir has for source a directory that the
\* copy created, and the copy does not end on a path the operating system
\* refuses for its length.
C20_CopyDirDoesNotCopyItsCopy ==
    /\ \A k \in DOMAIN dStack : dStack[k].src \notin dCreated
    /\ dPc = "done" => dErr # "ENAMETOOLONG"

====
